---- MODULE Spec2Model ----
(***************************************************************************)
(* A model of preprocessing.py: the key normalizer (normalize), the grid   *)
(* sampler (sample_midi_track), the piano-roll builder (piano_roll), the   *)
(* vocabulary (build_vocab, tokens_to_ids) and the train/test split of     *)
(* get_data.                                                               *)
(*                                                                         *)
(* A parsed midi file is a record [tracks, ticks_per_beat]; a track is a   *)
(* sequence of messages; a message is a record                             *)
(*   [meta, type, time, note, velocity, key]                               *)
(* (meta = isinstance(msg, MetaMessage); fields a message type does not    *)
(* carry are 0 or "").  Python exceptions are modelled by pc = "aborted"   *)
(* with the exception's name in err.                                       *)
(***************************************************************************)
EXTENDS Integers, Sequences, FiniteSets, TLC

VARIABLES
    pc,             \* position of the run
    err,            \* name of the exception that ended the run, or "none"
    orig,           \* the midi file as parsed, before normalize
    midi_file,      \* the midi file (mutated in place by normalize)
    twin,           \* a second midi file run in lockstep (same messages, other key names)
    tracks,         \* piano_roll: the sampled tracks of midi_file
    twinTracks,     \* piano_roll: the same tracks of twin
    interval,       \* sample_midi_track: ticks per sample
    num_samples,    \* sample_midi_track: length of the output buffer
    voice,          \* index of the track being sampled (1-based)
    msg_i,          \* sample_midi_track: number of messages fetched by the for loop
    next_msg_time,  \* sample_midi_track
    cur_time,       \* sample_midi_track
    arr_index,      \* sample_midi_track (0-based, as in the code)
    samples,        \* sample_midi_track: the buffer, slot k of the code is samples[k+1]
    twinSamples,    \* the buffer of the twin's call
    rows,           \* piano_roll: the buffers returned so far, one per track
    twinRows,
    roll,           \* piano_roll's result, a sequence of tokens
    twinRoll,
    tokens,         \* build_vocab / tokens_to_ids: the argument
    token_to_id,    \* the vocabulary
    id_to_token,
    ids,            \* tokens_to_ids' result
    rolled,         \* get_data: the piano rolls of the corpus
    data            \* get_data's result

pieceVars   == <<orig, midi_file, twin>>
samplerVars == <<tracks, twinTracks, interval, num_samples, voice, msg_i, next_msg_time,
                 cur_time, arr_index, samples, twinSamples, rows, twinRows>>
rollVars    == <<roll, twinRoll>>
vocabVars   == <<tokens, token_to_id, id_to_token, ids>>
dataVars    == <<rolled, data>>
vars == <<pc, err, pieceVars, samplerVars, rollVars, vocabVars, dataVars>>

----------------------------------------------------------------------------
(* Bounds of the model *)

MaxTracks == 5      \* tracks per midi file
MaxTokens == 4      \* tokens per sequence given to build_vocab / tokens_to_ids
MaxNotes  == 7      \* total tokens of a corpus given to get_data
MaxSamples == 3     \* num_samples of a direct call of sample_midi_track
MaxMsgs   == 3      \* messages of the track of a direct call of sample_midi_track

----------------------------------------------------------------------------
(* Messages *)

KeySig(k) ==
    [meta |-> TRUE, type |-> "key_signature", time |-> 0, note |-> 0, velocity |-> 0, key |-> k]
EndOfTrack(t) ==
    [meta |-> TRUE, type |-> "end_of_track", time |-> t, note |-> 0, velocity |-> 0, key |-> ""]
NoteOn(n, v, t) ==
    [meta |-> FALSE, type |-> "note_on", time |-> t, note |-> n, velocity |-> v, key |-> ""]
NoteOff(n, t) ==
    [meta |-> FALSE, type |-> "note_off", time |-> t, note |-> n, velocity |-> 0, key |-> ""]

----------------------------------------------------------------------------
(* normalize *)

\* the dictionary of lines 50-55
reference ==
    ("B#" :> 0) @@ ("C" :> 0) @@ ("C#" :> -1) @@ ("Db" :> -1) @@ ("D" :> -2) @@ ("D#" :> -3)
    @@ ("Eb" :> -3) @@ ("E" :> -4) @@ ("Fb" :> -4) @@ ("E#" :> -5) @@ ("F" :> -5)
    @@ ("F#" :> -6) @@ ("Gb" :> -6) @@ ("G" :> 5) @@ ("G#" :> 4) @@ ("Ab" :> 4)
    @@ ("A" :> 3) @@ ("A#" :> 2) @@ ("Bb" :> 2) @@ ("B" :> 1) @@ ("Cb" :> 1)
    @@ ("B#m" :> -3) @@ ("Cm" :> -3) @@ ("C#m" :> -4) @@ ("Dbm" :> -4) @@ ("Dm" :> -5)
    @@ ("D#m" :> -6) @@ ("Ebm" :> -6) @@ ("Em" :> -7) @@ ("Fbm" :> -7) @@ ("E#m" :> 4)
    @@ ("Fm" :> 4) @@ ("F#m" :> 3) @@ ("Gbm" :> 3) @@ ("Gm" :> 2) @@ ("G#m" :> 1)
    @@ ("Abm" :> 1) @@ ("Am" :> 0) @@ ("A#m" :> -1) @@ ("Bbm" :> -1) @@ ("Bm" :> -2)
    @@ ("Cbm" :> -2)

\* ticks_per_beat after normalize (line 42)
NormTicks == 120

\* Faulty variant of LookupReference: dict.get(key, 0), a silent default.
LookupDefault(key) ==
    [raised |-> FALSE, value |-> IF key \in DOMAIN reference THEN reference[key] ELSE 0]

\* difference = reference[key] (line 58): a KeyError when key is no key of the dictionary
LookupReference(key) ==
    IF key \in DOMAIN reference
    THEN [raised |-> FALSE, value |-> reference[key]]
    ELSE [raised |-> TRUE, value |-> 0]

\* lines 45-48, from message j on: the key after the scan of the track
RECURSIVE ScanKey(_, _, _)
ScanKey(track, j, key) ==
    IF j > Len(track) THEN key
    ELSE ScanKey(track, j + 1,
                 IF track[j].meta /\ track[j].type = "key_signature"
                 THEN track[j].key ELSE key)

\* Faulty variant of TransposeTrack: note_off messages are transposed too.
TransposeOnAndOff(track, difference) ==
    [j \in 1..Len(track) |->
        IF track[j].type \in {"note_on", "note_off"}
        THEN [track[j] EXCEPT !.note = @ + difference]
        ELSE track[j]]

\* lines 59-62: msg.note += difference for the note_on messages of the track
TransposeTrack(track, difference) ==
    [j \in 1..Len(track) |->
        IF track[j].type = "note_on"
        THEN [track[j] EXCEPT !.note = @ + difference]
        ELSE track[j]]

\* the loop of lines 40-62 from track i on, with the key the scan has reached
RECURSIVE NormalizeLoop(_, _, _)
NormalizeLoop(file, i, key) ==
    IF i > Len(file.tracks) THEN [file |-> file, raised |-> FALSE, key |-> key]
    ELSE LET f1 == [file EXCEPT !.ticks_per_beat = NormTicks]
             k  == ScanKey(f1.tracks[i], 1, key)
             d  == LookupReference(k)
         IN  IF d.raised THEN [file |-> f1, raised |-> TRUE, key |-> k]
             ELSE NormalizeLoop([f1 EXCEPT !.tracks[i] = TransposeTrack(@, d.value)],
                                i + 1, k)

\* normalize(midi_file), lines 29-64: the file it leaves and whether it raised
normalize(file) == NormalizeLoop(file, 1, "C")

----------------------------------------------------------------------------
(* sample_midi_track *)

\* Faulty variant of StartCursor: the cursor starts one whole interval in.
StartCursorWhole(ival) == ival

\* cur_time = interval // 4 (line 83)
StartCursor(ival) == ival \div 4

\* Faulty variant of IsOff: every note message is recorded, note_on included.
IsAnyNote(msg) == msg.type \in {"note_on", "note_off"}

\* the condition of line 95
IsOff(msg) == msg.type = "note_off" \/ (msg.type = "note_on" /\ msg.velocity = 0)

\* np.zeros(num_samples) (line 87)
Zeros(n) == [k \in 1..n |-> 0]

----------------------------------------------------------------------------
(* piano_roll *)

RECURSIVE Duration(_)
\* sum([m.time for m in track]) (line 124)
Duration(track) == IF track = <<>> THEN 0 ELSE Head(track).time + Duration(Tail(track))

Max2(a, b) == IF a >= b THEN a ELSE b
Min2(a, b) == IF a <= b THEN a ELSE b

RECURSIVE MaxDuration(_)
\* max([sum(...) for track in tracks]) (line 124), tracks not empty
MaxDuration(trks) ==
    IF Len(trks) = 1 THEN Duration(trks[1])
    ELSE Max2(Duration(Head(trks)), MaxDuration(Tail(trks)))

\* Faulty variant of MaxLength: the length of the first sampled track stands for all.
MaxLengthFirst(trks, ival) == Duration(trks[1]) + ival \div 4

\* max_length (line 124)
MaxLength(trks, ival) == MaxDuration(trks) + ival \div 4

\* Faulty variant of NumSamples: rounded down instead of up.
NumSamplesFloor(trks, ival) == MaxLength(trks, ival) \div ival

\* num_samples = ceil(max_length / ticks_per_eighth_note) (line 125), ival > 0
NumSamples(trks, ival) == (MaxLength(trks, ival) + ival - 1) \div ival

\* ticks_per_eighth_note = ticks_per_beat / 2 (line 111).  The code divides in
\* floating point; normalize has set ticks_per_beat to the even NormTicks, so
\* the quotient is a whole number.
EighthNote(file) == file.ticks_per_beat \div 2

\* tracks = midi_file.tracks[1:] (line 109)
DropFirst(trks) == IF trks = <<>> THEN <<>> ELSE Tail(trks)

\* Lines 114-118: with more than 3 tracks, 3 of them chosen without replacement by
\* a generator seeded with len(tracks[0]); the seed's effect is not known, so any
\* 3 distinct tracks in any order.  Otherwise all the tracks, in order.
Selections(n) ==
    IF n > 3
    THEN {s \in [1..3 -> 1..n] : \A a, b \in 1..3 : a # b => s[a] # s[b]}
    ELSE {[k \in 1..n |-> k]}

RECURSIVE InsertSorted(_, _)
InsertSorted(x, s) ==
    IF s = <<>> THEN <<x>>
    ELSE IF x <= Head(s) THEN <<x>> \o s
    ELSE <<Head(s)>> \o InsertSorted(x, Tail(s))

RECURSIVE SortNotes(_)
\* np.sort on one timestep (line 131)
SortNotes(s) == IF s = <<>> THEN <<>> ELSE InsertSorted(Head(s), SortNotes(Tail(s)))

RECURSIVE JoinNotes(_)
\* "-".join([str(note) for note in notes]) (line 132)
JoinNotes(notes) ==
    IF notes = <<>> THEN ""
    ELSE IF Len(notes) = 1 THEN ToString(notes[1])
    ELSE ToString(notes[1]) \o "-" \o JoinNotes(Tail(notes))

\* lines 127-132: the buffers, one per track, transposed to one row per timestep,
\* each row sorted and joined
RollTokens(rws, n) ==
    [k \in 1..n |-> JoinNotes(SortNotes([v \in 1..Len(rws) |-> rws[v][k]]))]

----------------------------------------------------------------------------
(* build_vocab, tokens_to_ids *)

\* Faulty variant of VocabAdd: without the test of line 160, a token met again
\* is given a new id.
VocabAddAgain(v, t) ==
    [token_to_id |-> (t :> v.highest_id) @@ v.token_to_id,
     id_to_token |-> v.id_to_token @@ (v.highest_id :> t),
     highest_id  |-> v.highest_id + 1]

\* the body of the loop of build_vocab (lines 160-164)
VocabAdd(v, t) ==
    IF t \in DOMAIN v.token_to_id THEN v
    ELSE [token_to_id |-> v.token_to_id @@ (t :> v.highest_id),
          id_to_token |-> v.id_to_token @@ (v.highest_id :> t),
          highest_id  |-> v.highest_id + 1]

RECURSIVE BuildVocabLoop(_, _, _)
BuildVocabLoop(toks, j, v) ==
    IF j > Len(toks) THEN v ELSE BuildVocabLoop(toks, j + 1, VocabAdd(v, toks[j]))

\* build_vocab(tokens), lines 149-166
build_vocab(toks) ==
    BuildVocabLoop(toks, 1, [token_to_id |-> <<>>, id_to_token |-> <<>>, highest_id |-> 0])

\* Faulty variant of IdOf: a token the vocabulary lacks gets the id after the last.
IdOfOrNext(t, t2i) == IF t \in DOMAIN t2i THEN t2i[t] ELSE Cardinality(DOMAIN t2i)

\* the body of the loop of tokens_to_ids (lines 172-175)
IdOf(t, t2i) == IF t \in DOMAIN t2i THEN t2i[t] ELSE 0

\* tokens_to_ids(tokens, token_to_id), lines 169-177
tokens_to_ids(toks, t2i) == [j \in 1..Len(toks) |-> IdOf(toks[j], t2i)]

----------------------------------------------------------------------------
(* get_data *)

\* train_test_split = 0.8 (line 8), in tenths
SplitTenths == 8
\* the length of a piece starter (line 216)
StarterLen == 64

\* a Python slice bound: negative counts from the end, and both are clipped
SliceBound(i, n) == IF i < 0 THEN Max2(i + n, 0) ELSE Min2(i, n)

\* s[lo:hi] of Python
PySlice(s, lo, hi) ==
    LET a == SliceBound(lo, Len(s))
        b == SliceBound(hi, Len(s))
    IN  IF b <= a THEN <<>> ELSE SubSeq(s, a + 1, b)

RECURSIVE Concatenate(_)
\* np.concatenate(rolled) (line 210), rolled not empty
Concatenate(rs) == IF rs = <<>> THEN <<>> ELSE Head(rs) \o Concatenate(Tail(rs))

\* Faulty variant of TrainLength: rounded up instead of down.
TrainLengthCeil(n) == (SplitTenths * n + 9) \div 10

\* train_length = int(train_test_split * len(all_notes)) (line 211).  The double
\* nearest 0.8 lies above 0.8 by less than 1e-16, so the product truncates to
\* floor(8 n / 10) for every n a corpus can reach.
TrainLength(n) == (SplitTenths * n) \div 10

\* lines 210-223
get_data(rs) ==
    LET all_notes    == Concatenate(rs)
        n            == Len(all_notes)
        train_length == TrainLength(n)
        train_inputs == PySlice(all_notes, 0, train_length - 1)
        v            == build_vocab(train_inputs)
        t2i          == v.token_to_id
    IN  [all_notes       |-> all_notes,
         train_input_ids |-> tokens_to_ids(train_inputs, t2i),
         train_label_ids |-> tokens_to_ids(PySlice(all_notes, 1, train_length), t2i),
         test_input_ids  |-> tokens_to_ids(PySlice(all_notes, train_length, -1), t2i),
         test_label_ids  |-> tokens_to_ids(PySlice(all_notes, train_length + 1, n), t2i),
         token_to_id     |-> t2i,
         id_to_token     |-> v.id_to_token,
         piece_starters  |->
            [f \in 1..Len(rs) |-> tokens_to_ids(PySlice(rs[f], 0, StarterLen), t2i)]]

----------------------------------------------------------------------------
(* Inputs *)

\* ticks_per_beat of the files as parsed
RawTicksPool == {480}

\* The tracks the midi files are made of: key signatures of a recognised major
\* key ("D", -2), a recognised minor key ("Gm", +2) and a key the dictionary lacks
\* ("H"); a note ended by a note_off and one ended by a note_on of velocity 0; time
\* that passes with no note.  The durations 100, 105 and 130 give 2, 2 (exactly)
\* and 3 samples.
TrackPool ==
    { <<KeySig("D"), EndOfTrack(130)>>,
      <<KeySig("H"), KeySig("Gm")>>,
      <<KeySig("H")>>,
      <<NoteOn(62, 100, 16), NoteOff(62, 84)>>,
      <<NoteOn(64, 100, 0), NoteOn(64, 0, 105)>> }

Pieces ==
    { [tracks |-> t, ticks_per_beat |-> b] :
        t \in UNION { [1..n -> TrackPool] : n \in 0..MaxTracks }, b \in RawTicksPool }

\* the key names a twin may exchange
RekeyPool == {"D", "Gm"}

KeysOfTrack(track) ==
    { track[j].key : j \in { x \in DOMAIN track : track[x].type = "key_signature" } }

KeysOf(file) == UNION { KeysOfTrack(file.tracks[i]) : i \in DOMAIN file.tracks }

Rekeyed(file, f) ==
    [file EXCEPT !.tracks =
        [i \in DOMAIN file.tracks |->
            [j \in DOMAIN file.tracks[i] |->
                IF file.tracks[i][j].type = "key_signature"
                THEN [file.tracks[i][j] EXCEPT !.key = f[@]]
                ELSE file.tracks[i][j]]]]

\* the files that differ from file in the names of their key signatures only,
\* every key name recognised in both
TwinsOf(file) ==
    IF KeysOf(file) # {} /\ KeysOf(file) \subseteq RekeyPool
    THEN { Rekeyed(file, f) : f \in [RekeyPool -> RekeyPool] }
    ELSE {file}

\* the tokens build_vocab and tokens_to_ids are given
TokenPool == {"0-64", "0-67", "unseen-token"}

TokenSeqs(n) == UNION { [1..k -> TokenPool] : k \in 0..n }

\* the vocabularies tokens_to_ids is given: any dictionary from tokens to ids
Vocabularies == UNION { [d -> 0..1] : d \in SUBSET TokenPool }

\* the messages of the track of a direct call of sample_midi_track
MsgPool == { NoteOn(64, 100, 0), NoteOff(64, 59), NoteOn(64, 0, 59), EndOfTrack(30) }

\* the intervals of a direct call
IntervalPool == {40, 60}

\* the tokens of the rolls get_data concatenates
RollTokenPool == {"0-64", "0-67"}

\* seq cut after the positions in cuts: the rolls of the pieces of a corpus
RECURSIVE CutAt(_, _, _)
CutAt(seq, cuts, from) ==
    IF from > Len(seq) THEN <<>>
    ELSE LET later == { c \in cuts : c >= from }
             upto  == IF later = {} THEN Len(seq)
                      ELSE CHOOSE c \in later : \A d \in later : c <= d
         IN  <<SubSeq(seq, from, upto)>> \o CutAt(seq, cuts, upto + 1)

NoPiece    == [tracks |-> <<>>, ticks_per_beat |-> 0]
NoData     == [all_notes |-> <<>>]

IdlePiece   == orig = NoPiece /\ midi_file = NoPiece /\ twin = NoPiece
IdleSampler ==
    /\ tracks = <<>> /\ twinTracks = <<>> /\ interval = 0 /\ num_samples = 0
    /\ voice = 0 /\ msg_i = 0 /\ next_msg_time = 0 /\ cur_time = 0 /\ arr_index = 0
    /\ samples = <<>> /\ twinSamples = <<>> /\ rows = <<>> /\ twinRows = <<>>
IdleRoll    == roll = <<>> /\ twinRoll = <<>>
IdleVocab   == tokens = <<>> /\ token_to_id = <<>> /\ id_to_token = <<>> /\ ids = <<>>
IdleData    == rolled = <<>> /\ data = NoData

----------------------------------------------------------------------------
(* The run of one midi file: normalize, then piano_roll *)

Init ==
    /\ pc = "raw" /\ err = "none"
    /\ midi_file \in Pieces
    /\ orig = midi_file
    /\ twin \in TwinsOf(midi_file)
    /\ IdleSampler /\ IdleRoll /\ IdleVocab /\ IdleData

\* normalize(midi_file), called by get_pieces (line 191), on the file and its twin
Normalize ==
    /\ pc = "raw"
    /\ LET r == normalize(midi_file)
       IN  /\ midi_file' = r.file
           /\ twin' = normalize(twin).file
           /\ pc' = IF r.raised THEN "aborted" ELSE "normalized"
           /\ err' = IF r.raised THEN "KeyError" ELSE "none"
    /\ UNCHANGED <<orig, samplerVars, rollVars, vocabVars, dataVars>>

\* the locals of sample_midi_track as the call starts (lines 83-87)
SampleCall(v, ival, n) ==
    /\ voice' = v
    /\ msg_i' = 0
    /\ next_msg_time' = 0
    /\ cur_time' = StartCursor(ival)
    /\ arr_index' = 0
    /\ samples' = Zeros(n)
    /\ twinSamples' = Zeros(n)

\* piano_roll up to its first call of sample_midi_track (lines 109-127); the
\* same choice of tracks is made for the twin, whose first track has the same length
PianoRollStart ==
    /\ pc = "normalized"
    /\ LET rest  == DropFirst(midi_file.tracks)
           trest == DropFirst(twin.tracks)
       IN  IF rest = <<>>
           THEN \* tracks[0] (line 114)
                /\ pc' = "aborted" /\ err' = "IndexError: tracks[0]"
                /\ UNCHANGED samplerVars
           ELSE \E sel \in Selections(Len(rest)) :
                LET chosen == [k \in DOMAIN sel |-> rest[sel[k]]]
                    ival   == EighthNote(midi_file)
                    n      == NumSamples(chosen, ival)
                IN  /\ tracks' = chosen
                    /\ twinTracks' = [k \in DOMAIN sel |-> trest[sel[k]]]
                    /\ interval' = ival
                    /\ num_samples' = n
                    /\ rows' = <<>> /\ twinRows' = <<>>
                    /\ SampleCall(1, ival, n)
                    /\ pc' = "sampling" /\ err' = "none"
    /\ UNCHANGED <<pieceVars, rollVars, vocabVars, dataVars>>

\* for msg in track: next_msg_time += msg.time (lines 89-90)
SampleFor ==
    /\ pc = "sampling"
    /\ ~(cur_time < next_msg_time)
    /\ msg_i < Len(tracks[voice])
    /\ msg_i' = msg_i + 1
    /\ next_msg_time' = next_msg_time + tracks[voice][msg_i + 1].time
    /\ UNCHANGED <<pc, err, pieceVars, tracks, twinTracks, interval, num_samples, voice,
                   cur_time, arr_index, samples, twinSamples, rows, twinRows,
                   rollVars, vocabVars, dataVars>>

\* one pass of the while loop (lines 91-98); a write past the buffer is numpy's
\* IndexError
SampleWhile ==
    /\ pc = "sampling"
    /\ cur_time < next_msg_time
    /\ LET msg  == tracks[voice][msg_i]
           tmsg == twinTracks[voice][msg_i]
       IN  IF IsOff(msg) /\ arr_index >= num_samples
           THEN /\ pc' = "aborted" /\ err' = "IndexError: samples[arr_index]"
                /\ UNCHANGED <<cur_time, arr_index, samples, twinSamples>>
           ELSE /\ samples' = IF IsOff(msg)
                              THEN [samples EXCEPT ![arr_index + 1] = msg.note]
                              ELSE samples
                /\ twinSamples' = IF IsOff(tmsg)
                                  THEN [twinSamples EXCEPT ![arr_index + 1] = tmsg.note]
                                  ELSE twinSamples
                /\ cur_time' = cur_time + interval
                /\ arr_index' = arr_index + 1
                /\ UNCHANGED <<pc, err>>
    /\ UNCHANGED <<pieceVars, tracks, twinTracks, interval, num_samples, voice, msg_i,
                   next_msg_time, rows, twinRows, rollVars, vocabVars, dataVars>>

\* return samples (line 100); piano_roll's comprehension (line 127) calls again
\* for the next track
SampleReturn ==
    /\ pc = "sampling"
    /\ ~(cur_time < next_msg_time)
    /\ msg_i = Len(tracks[voice])
    /\ rows' = Append(rows, samples)
    /\ twinRows' = Append(twinRows, twinSamples)
    /\ IF voice < Len(tracks)
       THEN /\ SampleCall(voice + 1, interval, num_samples)
            /\ UNCHANGED pc
       ELSE /\ pc' = "sampled"
            /\ UNCHANGED <<voice, msg_i, next_msg_time, cur_time, arr_index,
                           samples, twinSamples>>
    /\ UNCHANGED <<err, pieceVars, tracks, twinTracks, interval, num_samples,
                   rollVars, vocabVars, dataVars>>

\* the rest of piano_roll (lines 127-134)
PianoRollFinish ==
    /\ pc = "sampled"
    /\ roll' = RollTokens(rows, num_samples)
    /\ twinRoll' = RollTokens(twinRows, num_samples)
    /\ pc' = "rolled"
    /\ UNCHANGED <<err, pieceVars, samplerVars, vocabVars, dataVars>>

Next ==
    \/ Normalize
    \/ PianoRollStart
    \/ SampleFor
    \/ SampleWhile
    \/ SampleReturn
    \/ PianoRollFinish

Spec == Init /\ [][Next]_vars

----------------------------------------------------------------------------
(* A direct call of sample_midi_track(track, interval, num_samples) *)

InitSampler ==
    /\ pc = "sampling" /\ err = "none"
    /\ IdlePiece /\ IdleRoll /\ IdleVocab /\ IdleData
    /\ tracks \in { <<t>> : t \in UNION { [1..n -> MsgPool] : n \in 0..MaxMsgs } }
    /\ twinTracks = tracks
    /\ interval \in IntervalPool
    /\ num_samples \in 0..MaxSamples
    /\ voice = 1 /\ msg_i = 0 /\ next_msg_time = 0 /\ arr_index = 0
    /\ cur_time = StartCursor(interval)
    /\ samples = Zeros(num_samples) /\ twinSamples = samples
    /\ rows = <<>> /\ twinRows = <<>>

NextSampler ==
    \/ SampleFor
    \/ SampleWhile
    \/ SampleReturn

SpecSampler == InitSampler /\ [][NextSampler]_vars

----------------------------------------------------------------------------
(* build_vocab and tokens_to_ids *)

InitVocab ==
    /\ pc = "vocab" /\ err = "none"
    /\ IdlePiece /\ IdleSampler /\ IdleRoll /\ IdleData
    /\ tokens \in TokenSeqs(MaxTokens)
    /\ token_to_id \in Vocabularies
    /\ id_to_token = <<>>
    /\ ids = <<>>

\* token_to_id, id_to_token = build_vocab(tokens)
BuildVocab ==
    /\ pc = "vocab"
    /\ LET v == build_vocab(tokens)
       IN  /\ token_to_id' = v.token_to_id
           /\ id_to_token' = v.id_to_token
    /\ pc' = "built"
    /\ UNCHANGED <<err, tokens, ids, pieceVars, samplerVars, rollVars, dataVars>>

\* ids = tokens_to_ids(toks, token_to_id), with the vocabulary given or built
TokensToIds ==
    /\ pc \in {"vocab", "built"}
    /\ \E toks \in TokenSeqs(MaxTokens) :
        /\ tokens' = toks
        /\ ids' = tokens_to_ids(toks, token_to_id)
    /\ pc' = IF pc = "vocab" THEN "converted" ELSE "built-converted"
    /\ UNCHANGED <<err, token_to_id, id_to_token, pieceVars, samplerVars, rollVars, dataVars>>

NextVocab ==
    \/ BuildVocab
    \/ TokensToIds

SpecVocab == InitVocab /\ [][NextVocab]_vars

----------------------------------------------------------------------------
(* get_data on the piano rolls of a corpus *)

\* The rolls of a corpus: piano_roll returns at least one token per piece, and a
\* corpus may hold no piece at all.
InitData ==
    /\ pc = "rolled-all" /\ err = "none"
    /\ IdlePiece /\ IdleSampler /\ IdleRoll /\ IdleVocab
    /\ \E all \in UNION { [1..n -> RollTokenPool] : n \in 0..MaxNotes } :
        \E cuts \in SUBSET (1..(Len(all) - 1)) :
            rolled = CutAt(all, cuts, 1)
    /\ data = NoData

\* lines 210-223; np.concatenate of no arrays raises ValueError
GetData ==
    /\ pc = "rolled-all"
    /\ IF rolled = <<>>
       THEN /\ pc' = "aborted" /\ err' = "ValueError: concatenate"
            /\ UNCHANGED data
       ELSE /\ data' = get_data(rolled)
            /\ pc' = "done"
            /\ UNCHANGED err
    /\ UNCHANGED <<rolled, pieceVars, samplerVars, rollVars, vocabVars>>

NextData ==
    \/ GetData

SpecData == InitData /\ [][NextData]_vars

----------------------------------------------------------------------------
(* Properties of normalize *)

RECURSIVE KeyAfter(_, _)
\* the key of the last key signature of tracks 1..i of the file, "C" when none
KeyAfter(file, i) ==
    IF i = 0 THEN "C" ELSE ScanKey(file.tracks[i], 1, KeyAfter(file, i - 1))

\* the key of the last key signature met when all the tracks are scanned in order
GoverningKey(file) == KeyAfter(file, Len(file.tracks))

Positions(file) ==
    UNION { { <<i, j>> : j \in DOMAIN file.tracks[i] } : i \in DOMAIN file.tracks }

\* C1: once normalize has returned, every note_on of every track, the tracks scanned
\* before the key signature included, has its pitch moved by the offset of the one
\* governing key of the file.
C1_OneGoverningKey ==
    pc = "normalized" =>
        \A x \in Positions(orig) :
            orig.tracks[x[1]][x[2]].type = "note_on" =>
                midi_file.tracks[x[1]][x[2]].note =
                    orig.tracks[x[1]][x[2]].note + reference[GoverningKey(orig)]

HasUnknownKey(file) == \E k \in KeysOf(file) : k \notin DOMAIN reference

\* the key in force as the scan of some track ends is no key of the dictionary
UnknownKeyInForce(file) ==
    \E i \in DOMAIN file.tracks : KeyAfter(file, i) \notin DOMAIN reference

\* C7 as stated: a file that holds a key signature of an unknown key, anywhere,
\* makes normalize abort with the lookup failure.
C7_AnyUnknownKeyAborts ==
    (pc # "raw" /\ HasUnknownKey(orig)) => (pc = "aborted" /\ err = "KeyError")

\* C7 as amended: normalize aborts with the lookup failure whenever the key in
\* force at the end of the scan of some track is unknown, and whenever it returns,
\* no track has ended its scan with an unknown key in force.
C7_UnknownKeyInForceAborts ==
    /\ (pc # "raw" /\ UnknownKeyInForce(orig)) => (pc = "aborted" /\ err = "KeyError")
    /\ pc \in {"normalized", "sampling", "sampled", "rolled"} => ~UnknownKeyInForce(orig)

C7_Witness ==
    /\ pc = "aborted" /\ err = "KeyError"
    /\ UnknownKeyInForce(orig)
    /\ Len(orig.tracks) >= 2
    /\ KeyAfter(orig, 1) \in DOMAIN reference

\* C8: normalize leaves the number and the order of the messages of every track,
\* every delta-time, every velocity and the pitch of every message that is not a
\* note_on as they were (also in the tracks it has passed when it aborts).
C8_NormalizeFrame ==
    pc # "raw" =>
        /\ Len(midi_file.tracks) = Len(orig.tracks)
        /\ \A i \in DOMAIN orig.tracks :
            /\ Len(midi_file.tracks[i]) = Len(orig.tracks[i])
            /\ \A j \in DOMAIN orig.tracks[i] :
                LET before == orig.tracks[i][j]
                    after  == midi_file.tracks[i][j]
                IN  /\ after.time = before.time
                    /\ after.velocity = before.velocity
                    /\ after.type = before.type
                    /\ after.meta = before.meta
                    /\ after.key = before.key
                    /\ before.type # "note_on" => after.note = before.note

C8_Witness ==
    /\ pc = "normalized"
    /\ midi_file.ticks_per_beat # orig.ticks_per_beat
    /\ \E x \in Positions(orig) :
        /\ orig.tracks[x[1]][x[2]].type = "note_on"
        /\ midi_file.tracks[x[1]][x[2]].note # orig.tracks[x[1]][x[2]].note
    /\ \E x \in Positions(orig) :
        /\ orig.tracks[x[1]][x[2]].type = "note_off"
        /\ KeyAfter(orig, x[1]) = "D"

----------------------------------------------------------------------------
(* Properties of sample_midi_track and piano_roll *)

Scenario == << <<NoteOn(64, 100, 0), NoteOff(64, 59)>> >>

\* C2 as stated: the scenario's call returns [0, 64, 64].
C2_ScenarioSilenceFirst ==
    (pc = "sampled" /\ tracks = Scenario /\ interval = 40 /\ num_samples = 3)
        => rows[1] = <<0, 64, 64>>

\* C2 as amended: the scenario's call returns [64, 64, 0]: the pitch in the two
\* slots sampled while the note sounds (at 10 and 50), silence in the third.
C2_ScenarioPitchFirst ==
    (pc = "sampled" /\ tracks = Scenario /\ interval = 40 /\ num_samples = 3)
        => rows[1] = <<64, 64, 0>>

C2_Witness ==
    /\ pc = "sampled" /\ tracks = Scenario /\ interval = 40 /\ num_samples = 3
    /\ err = "none" /\ Len(rows) = 1 /\ arr_index = 2

DurationsOf(trks) == { Duration(trks[v]) : v \in DOMAIN trks }
LongestOf(trks) == CHOOSE m \in DurationsOf(trks) : \A d \in DurationsOf(trks) : d <= m

\* C4: the roll piano_roll returns has ceil((max_track_duration + interval/4) /
\* interval) tokens, interval being half the ticks per beat of the file: it is the
\* least L with L * interval >= max_track_duration + interval / 4 (here times 8).
C4_RollLength ==
    pc = "rolled" =>
        LET tpb == midi_file.ticks_per_beat
            m   == LongestOf(tracks)
            L   == Len(roll)
        IN  /\ 4 * L * tpb >= 8 * m + tpb
            /\ 4 * (L - 1) * tpb < 8 * m + tpb

C4_Witness ==
    /\ pc = "rolled"
    /\ Len(midi_file.tracks) > 4 /\ Len(tracks) = 3
    /\ Cardinality(DurationsOf(tracks)) = 3
    /\ Duration(tracks[1]) < Duration(tracks[2])
    /\ Len(roll) = 3

NoZeroVelocityNoteOn(file) ==
    \A x \in Positions(file) :
        file.tracks[x[1]][x[2]].type = "note_on" => file.tracks[x[1]][x[2]].velocity # 0

\* C9: two files that differ only in the names of their (recognised) key
\* signatures, and whose notes are all ended by note_off messages, get the same
\* roll from piano_roll after normalize.
C9_KeyDoesNotReachRoll ==
    (pc = "rolled" /\ NoZeroVelocityNoteOn(orig)) => roll = twinRoll

C9_Witness ==
    /\ pc = "rolled" /\ NoZeroVelocityNoteOn(orig)
    /\ KeysOf(twin) # KeysOf(midi_file)
    /\ \E v \in DOMAIN tracks : \E j \in DOMAIN tracks[v] :
        /\ tracks[v][j].type = "note_on"
        /\ tracks[v][j].note # twinTracks[v][j].note
    /\ \E v \in DOMAIN rows : \E k \in DOMAIN rows[v] : rows[v][k] # 0

\* C10: while piano_roll samples a normalized file (interval 60, cursor from 15),
\* every write of sample_midi_track is to a slot below num_samples, the call never
\* ends in an IndexError, and the slots from the write index on are still 0.
C10_WriteIndexInBuffer ==
    /\ err # "IndexError: samples[arr_index]"
    /\ pc = "sampling" =>
        /\ interval = 60
        /\ cur_time >= 15
        /\ (cur_time < next_msg_time /\ IsOff(tracks[voice][msg_i]))
                => arr_index < num_samples
        /\ \A k \in (arr_index + 1)..num_samples : samples[k] = 0

C10_Witness ==
    /\ pc = "sampling"
    /\ cur_time < next_msg_time /\ IsOff(tracks[voice][msg_i])
    /\ arr_index = num_samples - 1
    /\ arr_index >= 1
    /\ Duration(tracks[voice]) + 15 = num_samples * interval

----------------------------------------------------------------------------
(* Properties of build_vocab and tokens_to_ids *)

Range(f) == { f[x] : x \in DOMAIN f }

\* the tokens of seq that occur before position j
SeenBefore(seq, j) == { seq[i] : i \in 1..(j - 1) }

Example == <<"0-64", "0-64", "0-67", "0-64">>

\* C5: build_vocab gives the k-th distinct token, in the order of first
\* occurrence, the id k; the ids are 0..n-1; the two dictionaries are inverse to
\* each other.
C5_VocabRoundTrip ==
    pc = "built" =>
        /\ DOMAIN token_to_id = Range(tokens)
        /\ DOMAIN id_to_token = 0..(Cardinality(Range(tokens)) - 1)
        /\ \A j \in DOMAIN tokens :
            /\ tokens[j] \notin SeenBefore(tokens, j) =>
                    token_to_id[tokens[j]] = Cardinality(SeenBefore(tokens, j))
            /\ id_to_token[token_to_id[tokens[j]]] = tokens[j]
        /\ \A i \in DOMAIN id_to_token : token_to_id[id_to_token[i]] = i
        /\ tokens = Example =>
            /\ token_to_id = ("0-64" :> 0) @@ ("0-67" :> 1)
            /\ id_to_token = (0 :> "0-64") @@ (1 :> "0-67")

C5_Witness ==
    /\ pc = "built" /\ tokens = Example
    /\ Cardinality(DOMAIN id_to_token) = 2

\* C6: tokens_to_ids returns, for any tokens and any vocabulary, as many ids as
\* tokens: the vocabulary's id for a token it holds, 0 for a token it lacks.
C6_UnseenIsZero ==
    pc \in {"converted", "built-converted"} =>
        /\ err = "none"
        /\ Len(ids) = Len(tokens)
        /\ \A j \in DOMAIN tokens :
            /\ tokens[j] \in DOMAIN token_to_id => ids[j] = token_to_id[tokens[j]]
            /\ tokens[j] \notin DOMAIN token_to_id => ids[j] = 0
        /\ (tokens = <<"0-64", "unseen-token">>
                /\ token_to_id = ("0-64" :> 0) @@ ("0-67" :> 1)) => ids = <<0, 0>>

C6_Witness ==
    /\ pc = "converted"
    /\ tokens = <<"0-64", "unseen-token">>
    /\ token_to_id = ("0-64" :> 0) @@ ("0-67" :> 1)
    /\ ids = <<0, 0>>

----------------------------------------------------------------------------
(* Properties of get_data *)

\* C3 as stated: for every corpus of N >= 1 tokens, len(train_inputs) +
\* len(test_inputs) + 2 = N and len(train_inputs) = len(train_labels).
C3_SplitLengthsFromOne ==
    (pc = "done" /\ Len(data.all_notes) >= 1) =>
        /\ Len(data.train_input_ids) + Len(data.test_input_ids) + 2 = Len(data.all_notes)
        /\ Len(data.train_input_ids) = Len(data.train_label_ids)

\* C3 as amended: len(train_inputs) = len(train_labels) for every N >= 1, and
\* len(train_inputs) + len(test_inputs) + 2 = N for every N >= 2.
C3_SplitLengthsFromTwo ==
    pc = "done" =>
        /\ Len(data.train_input_ids) = Len(data.train_label_ids)
        /\ Len(data.all_notes) >= 2 =>
            Len(data.train_input_ids) + Len(data.test_input_ids) + 2 = Len(data.all_notes)

C3_Witness ==
    /\ pc = "done"
    /\ Len(data.all_notes) = 6
    /\ Len(data.train_input_ids) = 3
    /\ Len(data.test_input_ids) = 1
    /\ Len(rolled) >= 2

====
